---- MODULE Spec2Model ----
(***************************************************************************)
(* A model of homework.py: the poll-check-notify loop of main() and the    *)
(* functions it calls (check_tokens, get_api_answer, check_response,       *)
(* parse_status, send_message).                                            *)
(*                                                                         *)
(* Python values are modelled as tagged JSON values, strings built by      *)
(* f-strings as sequences of their parts (the fixed text and the           *)
(* interpolated values), exceptions as the sequence of parts of str(error).*)
(* The fixed texts are rendered in ASCII.                                  *)
(***************************************************************************)
EXTENDS Integers, Sequences, FiniteSets, TLC

VARIABLES
    pc,               \* position of main(): "start", "try", "except", "finally", "exited", "crashed"
    env,              \* the three environment values read at import (lines 18-20)
    critical_log,     \* names logged by logger.critical in check_tokens
    timestamp,        \* main's local `timestamp`
    last_message,     \* main's local `last_message`
    error,            \* the exception caught by `except Exception as error` (NoError if none)
    raised,           \* the exception propagating out of the try statement (NoError if none)
    slept,            \* seconds slept since the last call of get_api_answer
    polled,           \* whether get_api_answer has been called yet
    cur,              \* what the current cycle has done so far
    observe,          \* which history is recorded: "cycles" (prev) or "slots" (the two below)
    prev,             \* what the previous cycle did
    delivered_status, \* the last status message delivered in an earlier cycle
    notified_error,   \* the last failure message delivered in an earlier cycle
    call,             \* a single call of a function: its name and arguments (<<>> in the loop)
    result            \* what that call returned or raised

vars == <<pc, env, critical_log, timestamp, last_message, error, raised, slept,
          polled, cur, observe, prev, delivered_status, notified_error,
          call, result>>

-----------------------------------------------------------------------------
(* Bounds and input sets *)

MaxHomeworks == 2

RETRY_PERIOD == 600

JInt(n) == [type |-> "int", v |-> n]
JNull == [type |-> "null", v |-> 0]
JList(s) == [type |-> "list", v |-> s]
JDict(f) == [type |-> "dict", v |-> f]

EmptyStr == <<>>
NoError == <<>>

TokenNames == <<"PRACTICUM_TOKEN", "TELEGRAM_TOKEN", "TELEGRAM_CHAT_ID">>

\* What os.getenv returns: None for a variable that is not set, or its value
EnvNone == [type |-> "None", v |-> ""]
EnvStr(s) == [type |-> "str", v |-> s]
EnvValues == {EnvNone, EnvStr(""), EnvStr("token")}

StartTimes == {1000}
HomeworkNames == {"lab1"}
StatusValues == {"approved", "reviewing", "rejected", "archived"}

\* The submission records the review API returns in the loop: JSON objects
\* with homework_name and status (the status known or not), and objects
\* lacking one of the two keys.
HomeworkItems ==
    {JDict([k \in {"homework_name", "status"} |->
              IF k = "homework_name" THEN n ELSE s]) :
        n \in HomeworkNames, s \in StatusValues}
    \cup {JDict([k \in {"homework_name"} |-> n]) : n \in HomeworkNames}
    \cup {JDict([k \in {"status"} |-> "approved"])}

HomeworkLists ==
    UNION {[1..n -> HomeworkItems] : n \in 0..MaxHomeworks}

CurrentDates == {JInt(2000), JNull}

\* Bodies response.json() can return: dicts over the keys homeworks and
\* current_date, and a body that is not a dict.
Bodies ==
    {JDict([k \in {"homeworks"} |-> JList(l)]) : l \in HomeworkLists}
    \cup {JDict([k \in {"homeworks", "current_date"} |->
                  IF k = "homeworks" THEN JList(l) ELSE d]) :
            l \in HomeworkLists, d \in CurrentDates}
    \cup {JDict([k \in {"current_date"} |-> JInt(2000)])}
    \cup {JDict([k \in {"homeworks", "current_date"} |->
                  IF k = "homeworks" THEN JNull ELSE JInt(2000)])}
    \cup {JList(<<>>)}

\* What requests.get does: raises a RequestException, answers with a status
\* code that is not 200, or answers 200 with a body that is JSON or not.
ApiOutcomes ==
    {[kind |-> "RequestException", code |-> 0, body |-> JNull]}
    \cup {[kind |-> "answer", code |-> 503, body |-> JNull]}
    \cup {[kind |-> "not JSON", code |-> 200, body |-> JNull]}
    \cup {[kind |-> "answer", code |-> 200, body |-> b] : b \in Bodies}

\* What bot.send_message does: delivers, raises ApiTelegramException, or
\* raises another exception (a transport failure reaching the messaging API).
SendOutcomes == {"delivered", "ApiTelegramException", "OtherException"}

-----------------------------------------------------------------------------
(* Results of calls: a returned value or a raised exception *)

Return(v) == [raises |-> FALSE, value |-> v, exc |-> NoError]
Raise(e) == [raises |-> TRUE, value |-> JNull, exc |-> e]

HOMEWORK_VERDICTS ==
    [s \in {"approved", "reviewing", "rejected"} |->
        CASE s = "approved" -> "Work reviewed: reviewer liked everything. Hooray!"
          [] s = "reviewing" -> "Work taken for review by reviewer."
          [] s = "rejected" -> "Work reviewed: reviewer has remarks."]

\* line 68: `not token`
Falsy(value) == value.type = "None" \/ value.v = ""

\* A check `token is None` instead of `not token`
MissingTokens_OnlyNone(e) ==
    SelectSeq(TokenNames, LAMBDA name : e[name].type = "None")

\* check_tokens: the names of the missing values, in order
MissingTokens(e) ==
    SelectSeq(TokenNames, LAMBDA name : Falsy(e[name]))

check_tokens(e) ==
    IF MissingTokens(e) # <<>>
    THEN Raise(<<"MissingEnvironmentVariableError">> \o MissingTokens(e))
    ELSE Return(TRUE)

\* send_message without its except clause
send_message_Uncaught(tg, message) ==
    CASE tg = "delivered" -> Return(TRUE)
      [] OTHER -> Raise(<<tg>>)

\* send_message under the outcome `tg` of bot.send_message
send_message(tg, message) ==
    CASE tg = "ApiTelegramException" -> Return(FALSE)
      [] tg = "OtherException" -> Raise(<<"OtherException">>)
      [] OTHER -> Return(TRUE)

\* get_api_answer under the outcome `api` of requests.get
get_api_answer(api, ts) ==
    IF api.kind = "RequestException"
    THEN Raise(<<"ConnectionError", "from_date", ts>>)
    ELSE IF api.code # 200
    THEN Raise(<<"APIRequestError", api.code>>)
    ELSE IF api.kind = "not JSON"
    THEN Raise(<<"JSONDecodeError">>)
    ELSE Return(api.body)

\* check_response reading the key with response.get('homeworks'): a missing
\* key fails the list check
check_response_NoKeyCheck(response) ==
    IF response.type # "dict"
    THEN Raise(<<"TypeError", "response is not a dict">>)
    ELSE IF "homeworks" \notin DOMAIN response.v
    THEN Raise(<<"TypeError", "homeworks is not a list">>)
    ELSE IF response.v["homeworks"].type # "list"
    THEN Raise(<<"TypeError", "homeworks is not a list">>)
    ELSE Return(response.v["homeworks"].v)

check_response(response) ==
    IF response.type # "dict"
    THEN Raise(<<"TypeError", "response is not a dict">>)
    ELSE IF "homeworks" \notin DOMAIN response.v
    THEN Raise(<<"APIResponseError", "no key homeworks">>)
    ELSE IF response.v["homeworks"].type # "list"
    THEN Raise(<<"TypeError", "homeworks is not a list">>)
    ELSE Return(response.v["homeworks"].v)

\* parse_status reading the verdict with HOMEWORK_VERDICTS.get(status, '')
parse_status_DefaultVerdict(homework) ==
    IF "homework_name" \notin DOMAIN homework.v
    THEN Raise(<<"KeyError", "homework_name">>)
    ELSE IF "status" \notin DOMAIN homework.v
    THEN Raise(<<"KeyError", "status">>)
    ELSE Return(<<"Status of work changed", homework.v["homework_name"],
                  IF homework.v["status"] \in DOMAIN HOMEWORK_VERDICTS
                  THEN HOMEWORK_VERDICTS[homework.v["status"]] ELSE "">>)

parse_status(homework) ==
    IF "homework_name" \notin DOMAIN homework.v
    THEN Raise(<<"KeyError", "homework_name">>)
    ELSE IF "status" \notin DOMAIN homework.v
    THEN Raise(<<"KeyError", "status">>)
    ELSE IF homework.v["status"] \notin DOMAIN HOMEWORK_VERDICTS
    THEN Raise(<<"ValueError", "undocumented status", homework.v["status"]>>)
    ELSE Return(<<"Status of work changed", homework.v["homework_name"],
                  HOMEWORK_VERDICTS[homework.v["status"]]>>)

-----------------------------------------------------------------------------
(* main(): the decisions of the loop body *)

\* line 228 and line 237: `message != last_message`
MessageDiffers(message, last) == message # last

\* A loop that never records the delivered status message
LastMessageAfterStatus_Forgets(delivered, message, last) == last

\* A loop that records the status message whether or not it was delivered
LastMessageAfterStatus_Always(delivered, message, last) == message

\* lines 229-230: `if send_message(bot, message): last_message = message`
LastMessageAfterStatus(delivered, message, last) ==
    IF delivered THEN message ELSE last

\* lines 238-239: `if send_message(bot, error_message): last_message = error_message`
LastMessageAfterError(delivered, error_message, last) ==
    IF delivered THEN error_message ELSE last

\* `response.get('current_date')`: no fallback to the previous cursor
RefreshedTimestamp_NoDefault(response, ts) ==
    IF "current_date" \in DOMAIN response.v
    THEN response.v["current_date"]
    ELSE JNull

\* line 232: `response.get('current_date', timestamp)`
RefreshedTimestamp(response, ts) ==
    IF "current_date" \in DOMAIN response.v
    THEN response.v["current_date"]
    ELSE ts

\* An exception handler that still refreshes the cursor from the response
TimestampWhenRaised_Refreshed(response, ts) ==
    IF "current_date" \in DOMAIN response.v
    THEN response.v["current_date"]
    ELSE ts

\* lines 226-234: an exception raised at line 226 or 229 leaves the try block
\* before line 232, timestamp is not assigned
TimestampWhenRaised(response, ts) == ts

\* `homeworks[-1]`: the last element taken for the most recent one
MostRecent_Last(homeworks) == homeworks[Len(homeworks)]

\* line 225: `homeworks[0]`
MostRecent(homeworks) == homeworks[1]

\* A loop that forgets the delivered message when there are no homeworks
LastMessageOnEmpty_Reset(last) == EmptyStr

\* lines 221-223: the branch for empty homeworks logs, assigns nothing and
\* continues
LastMessageOnEmpty(last) == last

\* line 235: f'... {error}'
ErrorMessage(exc) == <<"Program failure">> \o exc

\* A sleep at the end of the loop body instead of in a finally clause: the
\* `continue` of line 223 skips it
SleepOnLeaving_NotOnContinue(path) ==
    IF path = "empty" THEN 0 ELSE RETRY_PERIOD

\* lines 240-241: the finally clause runs on every way out of the try
\* statement (normal end, `continue`, handled or propagating exception)
SleepOnLeaving(path) == RETRY_PERIOD

\* What a cycle has done: the way it left the try block ("empty": the
\* `continue` of line 223, "status": the end of the block, "fail": an
\* exception), the message parse_status returned, the message the handler
\* composed, the outcome of each call of send_message ("none": not called),
\* whether check_response returned, the response's current_date, the
\* from_date the request was made with, and what bot.send_message did when
\* called with the status message ("none": not called).
NoCycle ==
    [path |-> "none", message |-> EmptyStr, error_message |-> EmptyStr,
     status_sent |-> "none", error_sent |-> "none", logged_error |-> FALSE,
     validated |-> FALSE, has_date |-> FALSE, date |-> JNull,
     from_date |-> JNull, status_bot |-> "none"]

Summary(c) ==
    [path |-> c.path, message |-> c.message, error_message |-> c.error_message,
     status_sent |-> c.status_sent, error_sent |-> c.error_sent,
     logged_error |-> c.logged_error]

SentAs(sent) ==
    IF sent.raises THEN "raised"
    ELSE IF sent.value THEN "delivered" ELSE "rejected"

\* The try block, lines 218-232, under the outcome `api` of requests.get and
\* the outcome `tg` of bot.send_message (read only if send_message is called):
\* the exception it raises (NoError if none), the new values of timestamp and
\* last_message, and what it did.
TryBody(api, tg, ts, last) ==
    LET answer == get_api_answer(api, ts)
        response == answer.value
        checked == check_response(response)
        homeworks == checked.value
        parsed == parse_status(MostRecent(homeworks))
        message == parsed.value
        sent == send_message(tg, message)
        seen == [NoCycle EXCEPT !.from_date = ts]
        got == [seen EXCEPT !.validated = TRUE,
                            !.has_date = "current_date" \in DOMAIN response.v,
                            !.date = RefreshedTimestamp(response, JNull)]
        Out(exc, t, l, did) ==
            [exc |-> exc, timestamp |-> t, last_message |-> l, did |-> did]
    IN  IF answer.raises
        THEN Out(answer.exc, ts, last, [seen EXCEPT !.path = "fail"])
        ELSE IF checked.raises
        THEN Out(checked.exc, ts, last, [seen EXCEPT !.path = "fail"])
        ELSE IF homeworks = <<>>
        THEN Out(NoError, ts, LastMessageOnEmpty(last),
                 [got EXCEPT !.path = "empty"])
        ELSE IF parsed.raises
        THEN Out(parsed.exc, TimestampWhenRaised(response, ts), last,
                 [got EXCEPT !.path = "fail"])
        ELSE IF ~MessageDiffers(message, last)
        THEN Out(NoError, RefreshedTimestamp(response, ts), last,
                 [got EXCEPT !.path = "status", !.message = message])
        ELSE IF sent.raises
        THEN Out(sent.exc, TimestampWhenRaised(response, ts), last,
                 [got EXCEPT !.path = "fail", !.message = message,
                             !.status_sent = SentAs(sent),
                             !.status_bot = tg])
        ELSE Out(NoError, RefreshedTimestamp(response, ts),
                 LastMessageAfterStatus(sent.value, message, last),
                 [got EXCEPT !.path = "status", !.message = message,
                             !.status_sent = SentAs(sent),
                             !.status_bot = tg])

\* Whether the try block calls send_message under the outcome `api`
TrySends(api, ts, last) ==
    TryBody(api, "delivered", ts, last).did.status_sent # "none"

-----------------------------------------------------------------------------
(* main(): the steps *)

Init ==
    /\ pc = "start"
    /\ env \in [{TokenNames[i] : i \in 1..Len(TokenNames)} -> EnvValues]
    /\ critical_log = <<>>
    /\ timestamp = JNull
    /\ last_message = EmptyStr
    /\ error = NoError
    /\ raised = NoError
    /\ slept = 0
    /\ polled = FALSE
    /\ cur = NoCycle
    /\ observe \in {"cycles", "slots"}
    /\ prev = Summary(NoCycle)
    /\ delivered_status = EmptyStr
    /\ notified_error = EmptyStr
    /\ call = <<>>
    /\ result = Return(JNull)

\* lines 211-214
Startup ==
    /\ pc = "start"
    /\ critical_log' = MissingTokens(env)
    /\ IF check_tokens(env).raises
       THEN /\ pc' = "exited"
            /\ raised' = check_tokens(env).exc
            /\ UNCHANGED <<timestamp, last_message>>
       ELSE /\ pc' = "try"
            /\ \E now \in StartTimes : timestamp' = JInt(now)
            /\ last_message' = EmptyStr
            /\ UNCHANGED raised
    /\ UNCHANGED <<env, error, slept, polled, cur, observe, prev,
                   delivered_status, notified_error, call, result>>

\* lines 217-232
TryBlock ==
    /\ pc = "try"
    /\ \E api \in ApiOutcomes :
         \E tg \in (IF TrySends(api, timestamp, last_message)
                    THEN SendOutcomes ELSE {"delivered"}) :
            LET r == TryBody(api, tg, timestamp, last_message) IN
            /\ timestamp' = r.timestamp
            /\ last_message' = r.last_message
            /\ error' = r.exc
            /\ cur' = r.did
            /\ pc' = IF r.exc # NoError THEN "except" ELSE "finally"
    /\ slept' = 0
    /\ polled' = TRUE
    /\ UNCHANGED <<env, critical_log, raised, observe, prev, delivered_status,
                   notified_error, call, result>>

\* lines 234-239
ExceptBlock ==
    /\ pc = "except"
    /\ LET error_message == ErrorMessage(error)
           logged == [cur EXCEPT !.error_message = error_message,
                                 !.logged_error = TRUE]
       IN  IF ~MessageDiffers(error_message, last_message)
           THEN /\ cur' = logged
                /\ UNCHANGED <<last_message, raised>>
           ELSE \E tg \in SendOutcomes :
                  LET sent == send_message(tg, error_message) IN
                  /\ cur' = [logged EXCEPT !.error_sent = SentAs(sent)]
                  /\ IF sent.raises
                     THEN /\ raised' = sent.exc
                          /\ UNCHANGED last_message
                     ELSE /\ last_message' =
                               LastMessageAfterError(sent.value, error_message,
                                                     last_message)
                          /\ UNCHANGED raised
    /\ pc' = "finally"
    /\ error' = NoError
    /\ UNCHANGED <<env, critical_log, timestamp, slept, polled, observe, prev,
                   delivered_status, notified_error, call, result>>

\* lines 240-241, then back to line 216 unless an exception is propagating
FinallyBlock ==
    /\ pc = "finally"
    /\ slept' = slept + SleepOnLeaving(cur.path)
    /\ pc' = IF raised # NoError THEN "crashed" ELSE "try"
    /\ prev' = IF observe = "cycles" THEN Summary(cur) ELSE prev
    /\ delivered_status' =
          IF observe = "slots" /\ cur.status_sent = "delivered"
          THEN cur.message ELSE delivered_status
    /\ notified_error' =
          IF observe = "slots" /\ cur.error_sent = "delivered"
          THEN cur.error_message ELSE notified_error
    /\ cur' = NoCycle
    /\ UNCHANGED <<env, critical_log, timestamp, last_message, error, raised,
                   polled, observe, call, result>>

Next == Startup \/ TryBlock \/ ExceptBlock \/ FinallyBlock

InitCycles == Init /\ observe = "cycles"

InitSlots == Init /\ observe = "slots"

\* The loop, with the previous cycle recorded in prev
Spec == InitCycles /\ [][Next]_vars

\* The loop, with the last delivered messages recorded in delivered_status
\* and notified_error
SpecSlots == InitSlots /\ [][Next]_vars

-----------------------------------------------------------------------------
(* Single calls of check_response and parse_status *)

\* Arguments of check_response: the bodies of the loop, values that are not
\* dicts, dicts without homeworks and dicts whose homeworks is not a list.
CheckResponseInputs ==
    Bodies
    \cup {JNull, JInt(0), JDict(<<>>)}
    \cup {JDict([k \in {"homeworks"} |-> x]) : x \in {JNull, JInt(0), JDict(<<>>)}}

\* Arguments of parse_status: dicts over any of the keys homework_name and
\* status.
ParseStatusInputs ==
    {JDict(f) : f \in UNION {[K -> {"lab1", "lab2"} \cup StatusValues] :
                              K \in SUBSET {"homework_name", "status"}}}

\* Values of last_message when the try block is entered: nothing delivered
\* yet, or a status message delivered earlier.
LastMessages ==
    {EmptyStr,
     <<"Status of work changed", "lab1", HOMEWORK_VERDICTS["approved"]>>}

CallInputs ==
    {<<"check_response", r>> : r \in CheckResponseInputs}
    \cup {<<"parse_status", h>> : h \in ParseStatusInputs}
    \cup {<<"try", api, tg, ts, last>> :
            api \in ApiOutcomes, tg \in SendOutcomes,
            ts \in {JInt(t) : t \in StartTimes}, last \in LastMessages}

InitCalls ==
    /\ pc = "call"
    /\ call \in CallInputs
    /\ result = Return(JNull)
    /\ env = [n \in {TokenNames[i] : i \in 1..Len(TokenNames)} |-> EnvStr("token")]
    /\ critical_log = <<>>
    /\ timestamp = JNull
    /\ last_message = EmptyStr
    /\ error = NoError
    /\ raised = NoError
    /\ slept = 0
    /\ polled = FALSE
    /\ cur = NoCycle
    /\ observe = "cycles"
    /\ prev = Summary(NoCycle)
    /\ delivered_status = EmptyStr
    /\ notified_error = EmptyStr

Returned(r) ==
    /\ result' = r
    /\ pc' = "returned"
    /\ UNCHANGED <<env, critical_log, timestamp, last_message, error, raised,
                   slept, polled, cur, observe, prev, delivered_status,
                   notified_error, call>>

\* lines 148-171
CallCheckResponse ==
    /\ pc = "call"
    /\ call[1] = "check_response"
    /\ Returned(check_response(call[2]))

\* lines 174-206
CallParseStatus ==
    /\ pc = "call"
    /\ call[1] = "parse_status"
    /\ Returned(parse_status(call[2]))

\* lines 218-232: the try block of one iteration, as one call
CallTryBody ==
    /\ pc = "call"
    /\ call[1] = "try"
    /\ Returned(TryBody(call[2], call[3], call[4], call[5]))

NextCalls == CallCheckResponse \/ CallParseStatus \/ CallTryBody

\* One call of one function on one argument
SpecCalls == InitCalls /\ [][NextCalls]_vars

TypeOK ==
    /\ pc \in {"start", "try", "except", "finally", "exited", "crashed",
              "call", "returned"}
    /\ slept \in {0, RETRY_PERIOD}
    /\ polled \in BOOLEAN

\* The number of calls of send_message a cycle made
Calls(c) ==
    (IF c.status_sent # "none" THEN 1 ELSE 0)
    + (IF c.error_sent # "none" THEN 1 ELSE 0)

\* The cycle's work is over: the try statement is left, the sleep not begun
CycleDone == pc = "finally"

-----------------------------------------------------------------------------
(* The poll loop never terminates *)

\* C1: once startup has succeeded no exception propagates out of the loop,
\* whatever fails in a cycle, a failing delivery inside the exception
\* handler included: main() is never left through an exception.
C1_LoopNeverTerminates == pc # "crashed"

-----------------------------------------------------------------------------
(* Deduplication of status messages *)

\* C2: when two consecutive cycles both end the try block normally with the
\* same message for homeworks[0] and the first cycle's delivery succeeded,
\* send_message is called exactly once across the two cycles.
C2_SameStatusDeliveredOnce ==
    (/\ CycleDone
     /\ prev.path = "status" /\ prev.status_sent = "delivered"
     /\ cur.path = "status" /\ cur.message = prev.message)
    => Calls(prev) + Calls(cur) = 1

C2_Witness ==
    /\ CycleDone
    /\ prev.path = "status" /\ prev.status_sent = "delivered"
    /\ cur.path = "status" /\ cur.message = prev.message
    /\ cur.status_sent = "none"

\* C3: a status message is compared only with the last delivered status
\* message: a cycle whose message for homeworks[0] equals the status message
\* last delivered makes no delivery of it, also after a failed cycle in
\* between delivered an error notification.
C3_DeliveredStatusNotResent ==
    (/\ CycleDone
     /\ cur.message # EmptyStr
     /\ cur.message = delivered_status)
    => cur.status_sent = "none"

-----------------------------------------------------------------------------
(* Deduplication of failure messages *)

\* C4: failure messages are deduplicated on their own: a cycle failing with
\* the failure message last notified makes no delivery attempt, also after a
\* successful cycle in between delivered a status message.
C4_NotifiedErrorNotResent ==
    (/\ CycleDone
     /\ cur.path = "fail"
     /\ cur.error_message = notified_error)
    => cur.error_sent = "none"

ConnectionFailure(error_message) ==
    /\ Len(error_message) >= 2
    /\ error_message[2] = "ConnectionError"

\* C5: when get_api_answer raises the same connection failure in cycle N
\* (where its failure message is new) and in cycle N+1, send_message is
\* called exactly once across the two cycles, and both cycles log the error.
C5_RepeatedConnectionFailureNotifiedOnce ==
    (/\ CycleDone
     /\ prev.path = "fail" /\ ConnectionFailure(prev.error_message)
     /\ prev.error_sent # "none"
     /\ cur.path = "fail" /\ cur.error_message = prev.error_message)
    => /\ Calls(prev) + Calls(cur) = 1
       /\ prev.logged_error /\ cur.logged_error

\* C6: when the failure message differs from the stored one, delivery is
\* attempted and the stored message becomes the failure message whether or
\* not it was delivered; so a repeated identical failure is attempted once.
C6_ErrorStateSetAfterAnyAttempt ==
    /\ (/\ CycleDone
        /\ cur.path = "fail"
        /\ cur.error_sent \in {"delivered", "rejected"})
       => last_message = cur.error_message
    /\ (/\ CycleDone
        /\ prev.path = "fail" /\ prev.error_sent = "rejected"
        /\ cur.path = "fail" /\ cur.error_message = prev.error_message)
       => cur.error_sent = "none"

-----------------------------------------------------------------------------
(* The success path *)

\* C7: on the success path last_message becomes the new message only when
\* send_message returns True; when it returns False last_message keeps its
\* value, and a next cycle with the same homeworks[0] attempts the delivery
\* of the same message again.
C7_StateKept ==
    (pc = "try" /\ cur'.path = "status")
    => last_message' = IF cur'.status_sent = "delivered"
                       THEN cur'.message ELSE last_message

C7_Retried ==
    (/\ CycleDone
     /\ prev.path = "status" /\ prev.status_sent = "rejected"
     /\ cur.message = prev.message)
    => cur.status_sent # "none"

C7_StatusStateOnlyOnDelivery == [][C7_StateKept]_vars /\ []C7_Retried

C7_Witness ==
    /\ CycleDone
    /\ prev.path = "status" /\ prev.status_sent = "rejected"
    /\ cur.path = "status" /\ cur.message = prev.message
    /\ cur.status_sent = "delivered"
    /\ last_message = cur.message

-----------------------------------------------------------------------------
(* The cursor *)

\* C8: after every cycle whose fetch and validation succeed and that ends
\* without failure, the homeworks empty or not, timestamp is the response's
\* current_date when the response has one.
C8_CursorRefreshedEveryCycle ==
    (/\ CycleDone
     /\ cur.path \in {"empty", "status"}
     /\ cur.has_date)
    => timestamp = cur.date

\* C9: when a response that passes validation has no current_date, the cycle
\* does not fail for it and timestamp keeps the value the request was made
\* with; the sleep leaves it alone and the next request is made with it.
C9_Retained ==
    (CycleDone /\ cur.validated /\ ~cur.has_date)
    => /\ timestamp = cur.from_date
       /\ (cur.message # EmptyStr /\ cur.status_sent # "raised")
          => cur.path = "status"

C9_NextFetch ==
    /\ pc = "finally" => timestamp' = timestamp
    /\ pc = "try" => cur'.from_date = timestamp

C9_CursorRetainedWithoutDate == []C9_Retained /\ [][C9_NextFetch]_vars

C9_Witness ==
    /\ CycleDone
    /\ cur.path = "status" /\ cur.status_sent = "delivered"
    /\ ~cur.has_date
    /\ timestamp = JInt(2000)
    /\ cur.from_date = JInt(2000)

-----------------------------------------------------------------------------
(* The sleep *)

\* C10: between two consecutive calls of get_api_answer the loop sleeps
\* exactly once, for RETRY_PERIOD, whatever the earlier cycle did.
C10_OneSleepBetweenFetches ==
    /\ (pc = "try" /\ polled) => slept = RETRY_PERIOD
    /\ pc \in {"except", "finally"} => slept = 0

C10_Witness ==
    /\ pc = "try" /\ polled
    /\ prev.path = "empty"
    /\ slept = RETRY_PERIOD

-----------------------------------------------------------------------------
(* Empty homeworks *)

\* C11: a cycle whose validated homeworks are empty calls send_message for
\* neither a status nor a failure message and leaves last_message as it was,
\* through the try block and through the sleep.
C11_Step ==
    /\ (pc = "try" /\ cur'.path = "empty")
       => (last_message' = last_message /\ pc' = "finally")
    /\ (pc = "finally" /\ cur.path = "empty")
       => last_message' = last_message

C11_NoCalls ==
    (CycleDone /\ cur.path = "empty")
    => (Calls(cur) = 0 /\ cur.error_message = EmptyStr /\ cur.validated)

C11_EmptyHomeworksTouchNothing == [][C11_Step]_vars /\ []C11_NoCalls

C11_Witness ==
    /\ CycleDone
    /\ cur.path = "empty"
    /\ last_message # EmptyStr
    /\ Calls(cur) = 0

-----------------------------------------------------------------------------
(* Unknown status *)

UnknownStatusFailure(error_message) ==
    /\ Len(error_message) >= 3
    /\ error_message[2] = "ValueError"
    /\ error_message[3] = "undocumented status"

\* C12: when homeworks[0] has a status outside the three known ones,
\* parse_status fails, no status message is sent, the handler attempts the
\* failure notification when its message is new, and the loop goes on to the
\* next cycle: no exception is propagating when the cycle's work is over.
C12_UnknownStatusNotifiedLoopContinues ==
    (CycleDone /\ UnknownStatusFailure(cur.error_message))
    => /\ cur.path = "fail"
       /\ cur.status_sent = "none" /\ cur.message = EmptyStr
       /\ cur.error_sent = "none" => last_message = cur.error_message
       /\ raised = NoError

-----------------------------------------------------------------------------
(* A rejected status delivery *)

\* C13: when the messaging API rejects the send of a status message
\* (bot.send_message raises ApiTelegramException), send_message returns
\* False, the cycle does not enter the handler (no failure message is
\* composed, logged or sent), timestamp is refreshed from the response, and
\* the cycle sleeps and goes on.
C13_Isolated ==
    (CycleDone /\ cur.status_bot = "ApiTelegramException")
    => /\ cur.status_sent = "rejected"
       /\ cur.path = "status"
       /\ cur.error_message = EmptyStr /\ ~cur.logged_error
       /\ Calls(cur) = 1
       /\ raised = NoError
       /\ timestamp = IF cur.has_date THEN cur.date ELSE cur.from_date

C13_Sleeps ==
    (pc = "finally" /\ cur.status_bot = "ApiTelegramException")
    => (slept' = RETRY_PERIOD /\ pc' = "try")

C13_RejectedStatusDeliveryIsolated == []C13_Isolated /\ [][C13_Sleeps]_vars

C13_Witness ==
    /\ CycleDone
    /\ cur.status_bot = "ApiTelegramException"
    /\ cur.path = "status"
    /\ cur.has_date /\ timestamp = JInt(2000) /\ cur.from_date = JInt(1000)

-----------------------------------------------------------------------------
(* The configuration gate *)

\* The required values that are absent or empty
Unset == {name \in DOMAIN env : env[name] \in {EnvNone, EnvStr("")}}

Elements(seq) == {seq[i] : i \in 1..Len(seq)}

\* C14: if any of the three required values is absent or empty, each missing
\* name is logged at critical level, check_tokens fails naming all of them,
\* and the loop never fetches, delivers or sleeps; the loop starts only when
\* all three are non-empty.
C14_ConfigurationGateFailsClosed ==
    /\ (pc # "start" /\ Unset # {})
       => /\ pc = "exited"
          /\ Elements(critical_log) = Unset
          /\ Len(critical_log) = Cardinality(Unset)
          /\ Head(raised) = "MissingEnvironmentVariableError"
          /\ Elements(Tail(raised)) = Unset
          /\ ~polled /\ slept = 0 /\ cur = NoCycle
          /\ last_message = EmptyStr
    /\ (pc # "start" /\ Unset = {})
       => (pc # "exited" /\ critical_log = <<>>)

C14_Witness ==
    /\ pc = "exited"
    /\ env["PRACTICUM_TOKEN"] = EnvStr("token")
    /\ env["TELEGRAM_TOKEN"] = EnvStr("")
    /\ env["TELEGRAM_CHAT_ID"] = EnvNone
    /\ critical_log = <<"TELEGRAM_TOKEN", "TELEGRAM_CHAT_ID">>

-----------------------------------------------------------------------------
(* check_response and parse_status *)

\* C15: check_response fails with a type error when the response is not a
\* dict, with a response-shape error when the dict has no homeworks, with a
\* type error when homeworks is not a list, and otherwise returns the
\* homeworks as they are, in order, empty or not, with or without
\* current_date.
C15_CheckResponseContract ==
    (pc = "returned" /\ call[1] = "check_response")
    => LET response == call[2] IN
       IF response.type # "dict"
       THEN result.raises /\ Head(result.exc) = "TypeError"
       ELSE IF "homeworks" \notin DOMAIN response.v
       THEN result.raises /\ Head(result.exc) = "APIResponseError"
       ELSE IF response.v["homeworks"].type # "list"
       THEN result.raises /\ Head(result.exc) = "TypeError"
       ELSE ~result.raises /\ result.value = response.v["homeworks"].v

C15_Witness ==
    /\ pc = "returned" /\ call[1] = "check_response"
    /\ ~result.raises
    /\ Len(result.value) = 2
    /\ result.value[1] # result.value[2]
    /\ "current_date" \notin DOMAIN call[2].v

KnownStatuses == {"approved", "reviewing", "rejected"}

\* C16: parse_status fails with a missing-field error naming the field when
\* homework_name or status is absent, with an unknown-status error when the
\* status is not one of the three known values, and otherwise returns the
\* sentence built from the name and the verdict of the status; the verdict
\* table has exactly the three entries and no verdict is made up.
C16_ParseStatusContract ==
    /\ DOMAIN HOMEWORK_VERDICTS = KnownStatuses
    /\ Cardinality(DOMAIN HOMEWORK_VERDICTS) = 3
    /\ (pc = "returned" /\ call[1] = "parse_status")
       => LET homework == call[2].v IN
          IF "homework_name" \notin DOMAIN homework
          THEN result.raises /\ result.exc = <<"KeyError", "homework_name">>
          ELSE IF "status" \notin DOMAIN homework
          THEN result.raises /\ result.exc = <<"KeyError", "status">>
          ELSE IF homework["status"] \notin KnownStatuses
          THEN result.raises /\ Head(result.exc) = "ValueError"
          ELSE /\ ~result.raises
               /\ Len(result.value) = 3
               /\ result.value[2] = homework["homework_name"]
               /\ result.value[3] = HOMEWORK_VERDICTS[homework["status"]]

C16_Witness ==
    /\ pc = "returned" /\ call[1] = "parse_status"
    /\ call[2].v = [k \in {"homework_name", "status"} |->
                      IF k = "homework_name" THEN "lab1" ELSE "archived"]
    /\ result.raises

-----------------------------------------------------------------------------
(* Delivery attempts of one cycle *)

\* C17: a cycle makes at most one delivery attempt: never both a status
\* notification and a failure notification, whatever the outcome of the
\* status delivery.
C17_AtMostOneDeliveryAttempt ==
    CycleDone => Calls(cur) <= 1

-----------------------------------------------------------------------------
(* The cursor of a failed cycle *)

\* C18: a cycle that ends in the exception handler leaves timestamp as the
\* request was made with, also when the response had a current_date; the
\* sleep leaves it alone and the next request is made with the same value.
C18_Unchanged ==
    (pc \in {"except", "finally"} /\ cur.path = "fail")
    => timestamp = cur.from_date

C18_SameCursorNext ==
    /\ (pc = "finally" /\ cur.path = "fail") => timestamp' = cur.from_date
    /\ pc = "try" => cur'.from_date = timestamp

C18_FailedCycleKeepsCursor == []C18_Unchanged /\ [][C18_SameCursorNext]_vars

C18_Witness ==
    /\ CycleDone
    /\ cur.path = "fail" /\ cur.validated
    /\ cur.has_date /\ cur.date = JInt(2000)
    /\ cur.error_sent = "delivered"
    /\ timestamp = JInt(1000)

-----------------------------------------------------------------------------
(* The first element of homeworks *)

\* The response of a call of the try block carries a non-empty list
HasHomeworks(api) ==
    /\ api.kind = "answer" /\ api.code = 200
    /\ api.body.type = "dict"
    /\ "homeworks" \in DOMAIN api.body.v
    /\ api.body.v["homeworks"].type = "list"
    /\ Len(api.body.v["homeworks"].v) >= 1

\* The same answer with every element after the first removed
FirstOnly(api) ==
    [api EXCEPT !.body.v["homeworks"].v = <<api.body.v["homeworks"].v[1]>>]

WellFormed(homework) ==
    /\ {"homework_name", "status"} \subseteq DOMAIN homework.v
    /\ homework.v["status"] \in KnownStatuses

\* C19: only homeworks[0] decides what the try block does: with the elements
\* after it removed the outcome is the same in everything (exception,
\* message, delivery, timestamp, last_message); a well-formed first element
\* gives its own message and no failure of extraction, a malformed one gives
\* a failure without status delivery, whatever stands at later positions.
C19_FirstElementDecides ==
    (pc = "returned" /\ call[1] = "try" /\ HasHomeworks(call[2]))
    => LET first == call[2].body.v["homeworks"].v[1] IN
       /\ result = TryBody(FirstOnly(call[2]), call[3], call[4], call[5])
       /\ WellFormed(first)
          => /\ result.did.message =
                  <<"Status of work changed", first.v["homework_name"],
                    HOMEWORK_VERDICTS[first.v["status"]]>>
             /\ result.exc # NoError => result.did.status_sent = "raised"
       /\ ~WellFormed(first)
          => /\ result.exc # NoError
             /\ Head(result.exc) \in {"KeyError", "ValueError"}
             /\ result.did.status_sent = "none"
             /\ result.did.message = EmptyStr

C19_Witness ==
    /\ pc = "returned" /\ call[1] = "try" /\ HasHomeworks(call[2])
    /\ Len(call[2].body.v["homeworks"].v) = 2
    /\ WellFormed(call[2].body.v["homeworks"].v[1])
    /\ "status" \notin DOMAIN call[2].body.v["homeworks"].v[2].v
    /\ result.exc = NoError
    /\ result.did.status_sent = "delivered"

-----------------------------------------------------------------------------
(* The type of the cursor *)

\* C20: from its assignment at startup on, timestamp is an integer in every
\* state, whatever bodies the API returns, so every request is made with an
\* integer from_date.
C20_CursorIsInteger ==
    pc \in {"try", "except", "finally", "crashed"} => timestamp.type = "int"

====
